---- MODULE Spec2Model ----
(***************************************************************************)
(* LinguaFlow: the useLiveTranslator hook (src/hooks/useLiveTranslator.ts) *)
(* and the App component that drives it (src/components/Visualizer.tsx).   *)
(*                                                                         *)
(* One action is one browser task: an event handler together with the      *)
(* synchronous code it runs.  Promise reactions that become runnable in a  *)
(* task are queued in mq and drained before any other task may start.      *)
(* Every call of connect that passes the API-key check is given a          *)
(* generation number; the audio contexts, the stream, the nodes and the    *)
(* live session it creates carry that number, and a ref holds a generation *)
(* number or Null.                                                         *)
(***************************************************************************)
EXTENDS Integers, Sequences, FiniteSets, TLC

\* ------------------------------------------------------------- bounds
MaxConnects == 2        \* calls of connect that pass the API-key check
MaxMessages == 2        \* server messages delivered to onmessage
MaxTime == 1            \* audio clock ticks
MaxPending == 1         \* chunk sends waiting on one unsettled session promise

\* ---------------------------------------------------------- constants
Null == 0
PlaybackSlack == 1      \* the 0.05 s added when playback fell behind (one clock tick)
WaitingForSpeech == "Waiting for speech..."
DISCONNECTED == "disconnected"
CONNECTING == "connecting"
CONNECTED == "connected"
ERROR == "error"
ConnectionState == {DISCONNECTED, CONNECTING, CONNECTED, ERROR}

Gens == 1..MaxConnects

\* The two Visualizer components App renders (Visualizer.tsx lines 219-220).
Vis == {"input", "output"}

VARIABLES
  \* props and mounting
  apiKey, mounted,
  \* React state of the hook
  connectionState, detectedLanguage, messages,
  \* refs of the hook
  inputContextRef, outputContextRef, inputAnalyserRef, outputAnalyserRef,
  processorRef, sourceRef, streamRef, sessionPromiseRef, nextStartTimeRef,
  scheduledSourcesRef, currentInputTransRef, currentOutputTransRef,
  \* platform objects, by generation
  connectPc, inCtx, outCtx, outTime, stream, processor, srcNode, session,
  reactions, mq, decoding,
  \* the two Visualizer components
  visualizers,
  \* counters
  connects, delivered,
  \* history
  last, sentChunks, toolLog, calls, sched, endOf, turnIn, turnOut

refVars == <<inputContextRef, outputContextRef, inputAnalyserRef, outputAnalyserRef,
             processorRef, sourceRef, streamRef, sessionPromiseRef, nextStartTimeRef,
             scheduledSourcesRef, currentInputTransRef, currentOutputTransRef>>
platformVars == <<connectPc, inCtx, outCtx, outTime, stream, processor, srcNode,
                  session, reactions, mq, decoding>>
historyVars == <<last, sentChunks, toolLog, calls, sched, endOf, turnIn, turnOut>>
vars == <<apiKey, mounted, connectionState, detectedLanguage, messages, refVars,
          platformVars, visualizers, connects, delivered, historyVars>>

\* What disconnect's cleanup writes.
cleanupVars == <<streamRef, stream, processorRef, processor, sourceRef, srcNode,
                 inputContextRef, inCtx, scheduledSourcesRef, outputContextRef, outCtx,
                 detectedLanguage>>
NoEntry == [type |-> "none", session |-> 0, id |-> 0, from |-> 0, msg |-> 0, meanwhile |-> FALSE]
DiscEntry(k) == [NoEntry EXCEPT !.type = "disc", !.session = k]
ChunkEntry(k) == [NoEntry EXCEPT !.type = "chunk", !.session = k]
ToolEntry(k, id, from, n) ==
  [NoEntry EXCEPT !.type = "tool", !.session = k, !.id = id, !.from = from, !.msg = n]

\* A server message: its function calls, its two transcription fragments (texts are
\* sequences of characters, <<>> when the field is absent), turnComplete, and the
\* duration of its audio in clock ticks (0 when it carries none).
FC(name, id, language) == [name |-> name, id |-> id, language |-> language]
Msg(fcs, inTxt, outTxt, tc, audio) ==
  [functionCalls |-> fcs, inputTxt |-> inTxt, outputTxt |-> outTxt,
   turnComplete |-> tc, audio |-> audio]
NoMsg == Msg(<<>>, <<>>, <<>>, FALSE, 0)
\* Messages of the playback scenarios: audio of one or two ticks, the second one
\* closing a turn.
AudioMsgSet ==
  { Msg(<<>>, <<>>, <<>>, FALSE, 1),
    Msg(<<>>, <<>>, <<"b">>, TRUE, 2) }
\* Messages of the chat scenarios: function calls, transcription fragments with and
\* without text, turnComplete.
ChatMsgSet ==
  { Msg(<<FC("other", 1, "German"), FC("report_language", 2, "French")>>, <<>>, <<>>, FALSE, 0),
    Msg(<<>>, <<" ", "a">>, <<"b", " ">>, FALSE, 0),
    Msg(<<>>, <<" ">>, <<>>, TRUE, 0),
    Msg(<<>>, <<>>, <<"c">>, TRUE, 1) }

\* The last buffer scheduled: its message and session, its start time and duration,
\* the clock and nextStartTimeRef read when it was scheduled, and the end of the
\* buffer scheduled before it for the same session (0 when it is the first).
NoSched == [msg |-> 0, session |-> 0, start |-> 0, dur |-> 0, now |-> 0, before |-> 0,
            prevEnd |-> 0]

\* The task just run: its handler, the generation it concerns, the status the UI
\* showed when it was a click, whether a call of disconnect ran to its end in it,
\* whether connect was called while that call was suspended, and the server message
\* when it was onmessage.
Last(op, k, at) ==
  [op |-> op, k |-> k, at |-> at, done |-> FALSE, meanwhile |-> FALSE, msg |-> NoMsg]
LastDone(op, k, at, meanwhile) == [Last(op, k, at) EXCEPT !.done = TRUE, !.meanwhile = meanwhile]
\* A task no property singles out.
Other == Last("other", 0, "")

Init ==
  /\ apiKey \in BOOLEAN
  /\ mounted = TRUE
  /\ connectionState = DISCONNECTED
  /\ detectedLanguage = WaitingForSpeech
  /\ messages = <<>>
  /\ inputContextRef = Null /\ outputContextRef = Null
  /\ inputAnalyserRef = Null /\ outputAnalyserRef = Null
  /\ processorRef = Null /\ sourceRef = Null /\ streamRef = Null
  /\ sessionPromiseRef = Null
  /\ nextStartTimeRef = 0
  /\ scheduledSourcesRef = {}
  /\ currentInputTransRef = <<>> /\ currentOutputTransRef = <<>>
  /\ connectPc = [k \in Gens |-> "none"]
  /\ inCtx = [k \in Gens |-> "none"]
  /\ outCtx = [k \in Gens |-> "none"]
  /\ outTime = [k \in Gens |-> 0]
  /\ stream = [k \in Gens |-> "none"]
  /\ processor = [k \in Gens |-> [ctx |-> Null, connected |-> FALSE, handler |-> FALSE]]
  /\ srcNode = [k \in Gens |-> "none"]
  /\ session = [k \in Gens |-> [promise |-> "none", ws |-> "none", opened |-> FALSE]]
  /\ reactions = [k \in Gens |-> <<>>]
  /\ mq = <<>>
  /\ decoding = {}
  /\ visualizers = [v \in Vis |-> [analyser |-> Null, isActive |-> FALSE, frames |-> <<>>]]
  /\ connects = 0
  /\ delivered = 0
  /\ last = Other
  /\ sentChunks = {}
  /\ toolLog = <<>>
  /\ calls = {}
  /\ sched = NoSched
  /\ endOf = [k \in Gens |-> 0]
  /\ turnIn = [k \in Gens |-> <<>>]
  /\ turnOut = [k \in Gens |-> <<>>]

\* ------------------------------------------------------------ Visualizer

\* The test at the top of the drawing effect (line 13), with the canvas mounted:
\* TRUE starts a drawing loop and registers the cleanup.
LoopRuns(analyser, isActive) == analyser # Null /\ isActive

\* requestAnimationFrame(draw) by the loop of the effect that just ran (lines 23, 52).
RequestFrame(frames, analyser) == Append(frames, [analyser |-> analyser, current |-> TRUE])

\* The cleanup without cancelAnimationFrame: the loop of the old effect lives on.
CancelNothing(frames) ==
  [i \in 1..Len(frames) |-> [frames[i] EXCEPT !.current = FALSE]]

\* The cleanup (lines 54-57): cancelAnimationFrame(animationId) removes the frame
\* the loop of this effect requested last, which is its only pending one.
CancelFrame(frames) == SelectSeq(frames, LAMBDA f : ~f.current)

\* The cleanup of the effect that ran with the props of vz: it exists only when
\* the effect did not return early.
Cleanup(vz) == IF LoopRuns(vz.analyser, vz.isActive) THEN CancelFrame(vz.frames) ELSE vz.frames

\* React commits a render of Visualizer vz with props analyser and isActive (the
\* colour never changes): when a dependency changed (line 58) the cleanup of the
\* previous effect runs and then the effect (lines 12-53).
Effect(vz, analyser, isActive) ==
  IF analyser = vz.analyser /\ isActive = vz.isActive
    THEN vz
    ELSE [analyser |-> analyser, isActive |-> isActive,
          frames |-> IF LoopRuns(analyser, isActive)
                       THEN RequestFrame(Cleanup(vz), analyser)
                       ELSE Cleanup(vz)]

\* React after a task of the hook: a change of the hook's state re-renders App,
\* which hands each Visualizer the analyser its ref holds at that moment (lines
\* 295-296 of the hook) and isActive (lines 219-220); unmounting runs the cleanups.
Render ==
  visualizers' =
    IF ~mounted'
      THEN [v \in Vis |-> [analyser |-> Null, isActive |-> FALSE,
                            frames |-> Cleanup(visualizers[v])]]
      ELSE IF <<connectionState', detectedLanguage', messages'>> =
              <<connectionState, detectedLanguage, messages>>
        THEN visualizers
        ELSE [v \in Vis |->
                Effect(visualizers[v],
                       IF v = "input" THEN inputAnalyserRef' ELSE outputAnalyserRef',
                       connectionState' = CONNECTED)]

\* ------------------------------------------------------------ disconnect

\* session.close(): closes an open socket; the close event (onclose) follows later.
CloseSession(s, k) ==
  IF s[k].ws = "open" THEN [s EXCEPT ![k].ws = "closing"] ELSE s

\* disconnect, from the stream cleanup to setDetectedLanguage (lines 48-76).
DisconnectTail ==
  /\ stream' = IF streamRef # Null THEN [stream EXCEPT ![streamRef] = "stopped"] ELSE stream
  /\ streamRef' = Null
  /\ processor' = IF processorRef # Null
                    THEN [processor EXCEPT ![processorRef].connected = FALSE]
                    ELSE processor
  /\ processorRef' = Null
  /\ srcNode' = IF sourceRef # Null THEN [srcNode EXCEPT ![sourceRef] = "disconnected"] ELSE srcNode
  /\ sourceRef' = Null
  /\ inCtx' = IF inputContextRef # Null THEN [inCtx EXCEPT ![inputContextRef] = "closed"] ELSE inCtx
  /\ inputContextRef' = Null
  /\ scheduledSourcesRef' = {}
  /\ outCtx' = IF outputContextRef # Null THEN [outCtx EXCEPT ![outputContextRef] = "closed"] ELSE outCtx
  /\ outputContextRef' = Null
  /\ detectedLanguage' = WaitingForSpeech

\* The status disconnect sets first (line 36).
DisconnectStatus == DISCONNECTED

\* disconnect() called by `caller` on the sessions `s` (the caller may have changed
\* them in the same task).  With no session promise the whole body runs at once; with
\* a settled promise the await resumes in the microtasks of the same task; with a
\* pending promise the call suspends as a reaction of that promise.
DisconnectCall(caller, s, at) ==
  /\ connectionState' = DisconnectStatus
  /\ IF sessionPromiseRef = Null
       THEN /\ DisconnectTail
            /\ UNCHANGED <<sessionPromiseRef, reactions>>
            /\ session' = s
            /\ last' = LastDone(caller, 0, at, FALSE)
       ELSE IF s[sessionPromiseRef].promise = "pending"
         THEN /\ reactions' = [reactions EXCEPT
                     ![sessionPromiseRef] = Append(@, DiscEntry(sessionPromiseRef))]
              /\ session' = s
              /\ UNCHANGED <<sessionPromiseRef, cleanupVars>>
              /\ last' = Last(caller, 0, at)
         ELSE /\ session' = IF s[sessionPromiseRef].promise = "fulfilled"
                              THEN CloseSession(s, sessionPromiseRef) ELSE s
              /\ sessionPromiseRef' = Null
              /\ DisconnectTail
              /\ UNCHANGED reactions
              /\ last' = LastDone(caller, 0, at, FALSE)

\* ---------------------------------------------------------------- connect

MarkMeanwhile(r) == [k \in Gens |-> [i \in 1..Len(r[k]) |->
                        IF r[k][i].type = "disc" THEN [r[k][i] EXCEPT !.meanwhile = TRUE]
                        ELSE r[k][i]]]

\* ConnectNoKey with the status set (line 85) before the API key is tested.
ConnectNoKeyAfterStatus(at) ==
  /\ ~apiKey
  /\ connectionState' = CONNECTING
  /\ last' = Last("connectNoKey", 0, at)
  /\ UNCHANGED <<detectedLanguage, messages, refVars, platformVars,
                 connects, delivered, sentChunks, toolLog, calls, sched, endOf, turnIn, turnOut>>

\* connect() with an empty API key: the alert, and nothing else (lines 80-83).
ConnectNoKey(at) ==
  /\ ~apiKey
  /\ last' = Last("connectNoKey", 0, at)
  /\ UNCHANGED <<connectionState, detectedLanguage, messages, refVars, platformVars,
                 connects, delivered, sentChunks, toolLog, calls, sched, endOf, turnIn, turnOut>>

\* connect() up to the await of getUserMedia (lines 85-106).  Creating an audio
\* context may throw: `outcome` is "ok", "noInput" (the first constructor throws)
\* or "noOutput" (the second one throws).
ConnectStart(at, outcome) ==
  /\ apiKey
  /\ connects < MaxConnects
  /\ LET k == connects + 1 IN
     /\ connects' = k
     /\ reactions' = MarkMeanwhile(reactions)
     /\ connectionState' = IF outcome = "ok" THEN CONNECTING ELSE ERROR
     /\ inputContextRef' = IF outcome = "noInput" THEN inputContextRef ELSE k
     /\ inCtx' = IF outcome = "noInput" THEN inCtx ELSE [inCtx EXCEPT ![k] = "running"]
     /\ outputContextRef' = IF outcome = "ok" THEN k ELSE outputContextRef
     /\ outCtx' = IF outcome = "ok" THEN [outCtx EXCEPT ![k] = "running"] ELSE outCtx
     /\ inputAnalyserRef' = IF outcome = "ok" THEN k ELSE inputAnalyserRef
     /\ outputAnalyserRef' = IF outcome = "ok" THEN k ELSE outputAnalyserRef
     /\ connectPc' = [connectPc EXCEPT ![k] = IF outcome = "ok" THEN "media" ELSE "failed"]
     /\ last' = Last(IF outcome = "ok" THEN "connect" ELSE "connectThrew", 0, at)
  /\ UNCHANGED <<detectedLanguage, messages, processorRef, sourceRef,
                 streamRef, sessionPromiseRef, nextStartTimeRef, scheduledSourcesRef,
                 currentInputTransRef, currentOutputTransRef, outTime, stream, processor,
                 srcNode, session, mq, decoding, delivered, sentChunks, toolLog,
                 calls, sched, endOf, turnIn, turnOut>>

\* connect() resumed by getUserMedia's stream, to its end (lines 106-277).  A null
\* input context makes createMediaStreamSource throw a TypeError; a source and an
\* analyser of different contexts make connect (line 113) throw; both are caught
\* (lines 279-282).  ai.live.connect returns a pending promise: it is not awaited.
ConnectMediaOk(k) ==
  /\ mq = <<>>
  /\ connectPc[k] = "media"
  /\ stream' = [stream EXCEPT ![k] = "live"]
  /\ streamRef' = k
  /\ IF inputContextRef = Null
       THEN /\ connectionState' = ERROR
            /\ connectPc' = [connectPc EXCEPT ![k] = "failed"]
            /\ last' = Last("connectFailed", 0, "")
            /\ UNCHANGED <<sourceRef, srcNode, processorRef, processor,
                           sessionPromiseRef, session>>
       ELSE /\ sourceRef' = k
            /\ srcNode' = [srcNode EXCEPT ![k] = "connected"]
            /\ processorRef' = k
            /\ IF inputAnalyserRef # inputContextRef
                 THEN /\ processor' = [processor EXCEPT ![k] =
                             [ctx |-> inputContextRef, connected |-> FALSE, handler |-> FALSE]]
                      /\ connectionState' = ERROR
                      /\ connectPc' = [connectPc EXCEPT ![k] = "failed"]
                      /\ last' = Last("connectFailed", 0, "")
                      /\ UNCHANGED <<sessionPromiseRef, session>>
                 ELSE /\ processor' = [processor EXCEPT ![k] =
                             [ctx |-> inputContextRef, connected |-> TRUE, handler |-> FALSE]]
                      /\ sessionPromiseRef' = k
                      /\ session' = [session EXCEPT ![k] =
                             [promise |-> "pending", ws |-> "connecting", opened |-> FALSE]]
                      /\ connectPc' = [connectPc EXCEPT ![k] = "session"]
                      /\ last' = Other
                      /\ UNCHANGED connectionState
  /\ UNCHANGED <<apiKey, mounted, detectedLanguage, messages, inputContextRef,
                 outputContextRef, inputAnalyserRef, outputAnalyserRef, nextStartTimeRef,
                 scheduledSourcesRef, currentInputTransRef, currentOutputTransRef,
                 inCtx, outCtx, outTime, reactions, mq, decoding, connects, delivered,
                 sentChunks, toolLog, calls, sched, endOf, turnIn, turnOut>>
  /\ Render

\* connect() resumed by getUserMedia's rejection: the catch block (lines 279-282).
ConnectMediaFail(k) ==
  /\ mq = <<>>
  /\ connectPc[k] = "media"
  /\ connectionState' = ERROR
  /\ connectPc' = [connectPc EXCEPT ![k] = "failed"]
  /\ last' = Last("connectFailed", 0, "")
  /\ UNCHANGED <<apiKey, mounted, detectedLanguage, messages, refVars, inCtx, outCtx,
                 outTime, stream, processor, srcNode, session, reactions, mq, decoding,
                 connects, delivered, sentChunks, toolLog, calls, sched, endOf, turnIn, turnOut>>
  /\ Render

\* ------------------------------------------------------------ the UI

\* ToggleDisconnects with CONNECTING left out of the test.
ToggleDisconnectsWhenConnected(state) == state = CONNECTED

\* toggleConnection's test (line 133 of Visualizer.tsx): TRUE calls disconnect.
ToggleDisconnects(state) == state \in {CONNECTED, CONNECTING}

ToggleDisconnect ==
  /\ mounted /\ mq = <<>>
  /\ ToggleDisconnects(connectionState)
  /\ DisconnectCall("toggleDisconnect", session, connectionState)
  /\ UNCHANGED <<apiKey, mounted, messages, inputAnalyserRef, outputAnalyserRef,
                 nextStartTimeRef, currentInputTransRef, currentOutputTransRef,
                 connectPc, outTime, mq, decoding, connects, delivered,
                 sentChunks, toolLog, calls, sched, endOf, turnIn, turnOut>>
  /\ Render

ToggleConnect ==
  /\ mounted /\ mq = <<>>
  /\ ~ToggleDisconnects(connectionState)
  /\ \/ ConnectNoKey(connectionState)
     \/ \E outcome \in {"ok", "noInput", "noOutput"} : ConnectStart(connectionState, outcome)
  /\ UNCHANGED <<apiKey, mounted>>
  /\ Render

\* The effect cleanup on unmount (lines 287-291).
Unmount ==
  /\ mounted /\ mq = <<>>
  /\ mounted' = FALSE
  /\ DisconnectCall("unmount", session, "")
  /\ UNCHANGED <<apiKey, messages, inputAnalyserRef, outputAnalyserRef,
                 nextStartTimeRef, currentInputTransRef, currentOutputTransRef,
                 connectPc, outTime, mq, decoding, connects, delivered,
                 sentChunks, toolLog, calls, sched, endOf, turnIn, turnOut>>
  /\ Render

\* ------------------------------------------------------ session callbacks

\* The status onopen sets (line 159).
OnOpenStatus == CONNECTED

\* The socket of session k opens: onopen runs (lines 158-175), then the promise of
\* ai.live.connect is fulfilled and its reactions are queued in registration order.
SessionOpen(k) ==
  /\ mq = <<>>
  /\ session[k].promise = "pending" /\ session[k].ws = "connecting"
  /\ connectionState' = OnOpenStatus
  /\ nextStartTimeRef' = IF outputContextRef # Null THEN outTime[outputContextRef] ELSE 0
  /\ processor' = IF processorRef # Null
                    THEN [processor EXCEPT ![processorRef].handler = TRUE]
                    ELSE processor
  /\ session' = [session EXCEPT ![k] = [promise |-> "fulfilled", ws |-> "open", opened |-> TRUE]]
  /\ mq' = reactions[k]
  /\ reactions' = [reactions EXCEPT ![k] = <<>>]
  /\ turnIn' = [turnIn EXCEPT ![k] = <<>>]
  /\ turnOut' = [turnOut EXCEPT ![k] = <<>>]
  /\ last' = Other
  /\ UNCHANGED <<apiKey, mounted, detectedLanguage, messages, inputContextRef,
                 outputContextRef, inputAnalyserRef, outputAnalyserRef, processorRef,
                 sourceRef, streamRef, sessionPromiseRef, scheduledSourcesRef,
                 currentInputTransRef, currentOutputTransRef, connectPc, inCtx, outCtx,
                 outTime, stream, srcNode, decoding, connects, delivered,
                 sentChunks, toolLog, calls, sched, endOf>>
  /\ Render

\* ai.live.connect fails before a socket exists: its promise is rejected and no
\* callback runs.  Nothing awaits the promise in connect (line 148).
SessionReject(k) ==
  /\ mq = <<>>
  /\ session[k].promise = "pending" /\ session[k].ws = "connecting"
  /\ session' = [session EXCEPT ![k].promise = "rejected", ![k].ws = "closed"]
  /\ mq' = reactions[k]
  /\ reactions' = [reactions EXCEPT ![k] = <<>>]
  /\ last' = Last("sessionRejected", 0, "")
  /\ UNCHANGED <<apiKey, mounted, connectionState, detectedLanguage, messages, refVars,
                 connectPc, inCtx, outCtx, outTime, stream, processor, srcNode, decoding,
                 connects, delivered, sentChunks, toolLog, calls, sched, endOf, turnIn, turnOut>>
  /\ Render

\* The socket of session k reports an error: onerror (lines 271-275) sets the status
\* to ERROR and then calls disconnect, whose first statement sets it again.  The
\* socket is closing from then on; the promise of a socket that never opened stays
\* pending.
SessionError(k) ==
  /\ mq = <<>>
  /\ session[k].ws \in {"connecting", "open"}
  /\ DisconnectCall("onerror", [session EXCEPT ![k].ws = "closing"], "")
  /\ UNCHANGED <<apiKey, mounted, messages, inputAnalyserRef, outputAnalyserRef,
                 nextStartTimeRef, currentInputTransRef, currentOutputTransRef,
                 connectPc, outTime, mq, decoding, connects, delivered,
                 sentChunks, toolLog, calls, sched, endOf, turnIn, turnOut>>
  /\ Render

\* The status onclose sets (line 269).
OnCloseStatus == DISCONNECTED

\* The close event of session k: the server closed an open socket, or a closing
\* socket finished closing.  onclose (lines 268-270) sets the status, nothing else.
SessionClose(k) ==
  /\ mq = <<>>
  /\ session[k].ws \in {"open", "closing"}
  /\ session' = [session EXCEPT ![k].ws = "closed"]
  /\ connectionState' = OnCloseStatus
  /\ last' = Other
  /\ UNCHANGED <<apiKey, mounted, detectedLanguage, messages, refVars, connectPc, inCtx,
                 outCtx, outTime, stream, processor, srcNode, reactions, mq, decoding,
                 connects, delivered, sentChunks, toolLog, calls, sched, endOf, turnIn, turnOut>>
  /\ Render

\* ----------------------------------------------------------- microphone

\* A chunk handed to session k's sendRealtimeInput (line 170): whether onopen of k
\* has run, and whether the session ref is held at that moment.
Sent(k, ref) == [opened |-> session[k].opened, held |-> ref # Null]

PendingChunks(k) == Len(SelectSeq(reactions[k], LAMBDA e : e.type = "chunk"))

\* onaudioprocess of processor p (lines 164-173): the handler exists once an onopen
\* installed it, and fires while the node is connected in a running context.  The
\* chunk goes to whatever promise the ref holds: at once when it is fulfilled, as a
\* reaction when it is pending, never when it is rejected.
AudioProcess(p) ==
  /\ mq = <<>>
  /\ processor[p].handler /\ processor[p].connected
  /\ inCtx[processor[p].ctx] = "running"
  /\ sessionPromiseRef # Null
  /\ session[sessionPromiseRef].promise # "rejected"
  /\ IF session[sessionPromiseRef].promise = "fulfilled"
       THEN /\ sentChunks' = sentChunks \cup {Sent(sessionPromiseRef, sessionPromiseRef)}
            /\ UNCHANGED reactions
       ELSE /\ PendingChunks(sessionPromiseRef) < MaxPending
            /\ reactions' = [reactions EXCEPT
                   ![sessionPromiseRef] = Append(@, ChunkEntry(sessionPromiseRef))]
            /\ UNCHANGED sentChunks
  /\ last' = Other
  /\ UNCHANGED <<apiKey, mounted, connectionState, detectedLanguage, messages, refVars,
                 connectPc, inCtx, outCtx, outTime, stream, processor, srcNode, session,
                 mq, decoding, connects, delivered, toolLog, calls, sched, endOf, turnIn, turnOut>>
  /\ Render

\* session.sendToolResponse of a queued response (lines 185-191).
ToolSent(e) == [to |-> e.session, id |-> e.id, name |-> "report_language",
                from |-> e.from, msg |-> e.msg]

\* ------------------------------------------------------------ microtasks

\* The head of the microtask queue runs: a disconnect resumed after its await
\* (lines 40-76), a chunk send (line 170) or a tool response (lines 185-191).
\* A rejected promise resumes disconnect in its catch and drops the other two.
RunMicrotask ==
  /\ mq # <<>>
  /\ LET e == Head(mq)
         k == e.session
         ok == session[k].promise = "fulfilled"
     IN
     /\ mq' = Tail(mq)
     /\ IF e.type = "disc"
          THEN /\ session' = IF ok THEN CloseSession(session, k) ELSE session
               /\ sessionPromiseRef' = Null
               /\ DisconnectTail
               /\ last' = LastDone("resume", 0, "", e.meanwhile)
               /\ UNCHANGED <<sentChunks, toolLog>>
          ELSE /\ sentChunks' = IF e.type = "chunk" /\ ok
                                  THEN sentChunks \cup {Sent(k, sessionPromiseRef)} ELSE sentChunks
               /\ toolLog' = IF e.type = "tool" /\ ok
                               THEN Append(toolLog, ToolSent(e))
                               ELSE toolLog
               /\ last' = Other
               /\ UNCHANGED <<session, sessionPromiseRef, cleanupVars>>
  /\ UNCHANGED <<apiKey, mounted, connectionState, messages, inputAnalyserRef,
                 outputAnalyserRef, nextStartTimeRef, currentInputTransRef,
                 currentOutputTransRef, connectPc, outTime, reactions, decoding,
                 connects, delivered, calls, sched, endOf, turnIn, turnOut>>
  /\ Render

\* ------------------------------------------------------------ onmessage

RECURSIVE TrimStart(_)
TrimStart(t) == IF t # <<>> /\ Head(t) = " " THEN TrimStart(Tail(t)) ELSE t
RECURSIVE TrimEnd(_)
TrimEnd(t) == IF t # <<>> /\ t[Len(t)] = " " THEN TrimEnd(SubSeq(t, 1, Len(t) - 1)) ELSE t
\* String.prototype.trim (lines 209-210).
Trim(t) == TrimEnd(TrimStart(t))

\* The function calls onmessage answers (line 180).
IsReport(fc) == fc.name = "report_language"
ReportCalls(m) == SelectSeq(m.functionCalls, IsReport)

\* TurnMessages with the test of line 212 on the user's text alone.
TurnMessagesUserTextOnly(prev, u, t) ==
  IF u # <<>>
    THEN prev \o << [sender |-> "user", text |-> u], [sender |-> "model", text |-> t] >>
    ELSE prev

\* The chat after a turnComplete with the trimmed texts u and t (lines 212-228).
TurnMessages(prev, u, t) ==
  IF u # <<>> \/ t # <<>>
    THEN prev \o << [sender |-> "user", text |-> u], [sender |-> "model", text |-> t] >>
    ELSE prev

\* StartTime without the reset of lines 255-257.
StartTimeNoReset(next, now) == next

\* The start time of the next buffer, from nextStartTimeRef and the clock (lines 253-259).
StartTime(next, now) == IF next < now THEN now + PlaybackSlack ELSE next

\* onmessage of session k with message m, up to the await of decodeAudioData
\* (lines 176-238); without audio, or without an output context, to its end.
OnMessage(k, m) ==
  /\ mq = <<>>
  /\ session[k].ws = "open"
  /\ delivered < MaxMessages
  /\ LET n == delivered + 1
         rc == ReportCalls(m)
         ref == sessionPromiseRef
         resp == [i \in 1..Len(rc) |-> ToolEntry(ref, rc[i].id, k, n)]
         inAll == currentInputTransRef \o m.inputTxt
         outAll == currentOutputTransRef \o m.outputTxt
     IN
     /\ delivered' = n
     /\ detectedLanguage' = IF rc = <<>> THEN detectedLanguage ELSE rc[Len(rc)].language
     /\ IF ref = Null \/ rc = <<>>
          THEN UNCHANGED <<toolLog, reactions>>
          ELSE IF session[ref].promise = "fulfilled"
            THEN /\ toolLog' = toolLog \o [i \in 1..Len(rc) |-> ToolSent(resp[i])]
                 /\ UNCHANGED reactions
            ELSE /\ reactions' = IF session[ref].promise = "pending"
                                   THEN [reactions EXCEPT ![ref] = @ \o resp]
                                   ELSE reactions
                 /\ UNCHANGED toolLog
     /\ calls' = calls \cup {[msg |-> n, session |-> k, id |-> m.functionCalls[i].id,
                              name |-> m.functionCalls[i].name] : i \in 1..Len(m.functionCalls)}
     /\ IF m.turnComplete
          THEN /\ messages' = TurnMessages(messages, Trim(inAll), Trim(outAll))
               /\ currentInputTransRef' = <<>>
               /\ currentOutputTransRef' = <<>>
               /\ turnIn' = [turnIn EXCEPT ![k] = <<>>]
               /\ turnOut' = [turnOut EXCEPT ![k] = <<>>]
          ELSE /\ currentInputTransRef' = inAll
               /\ currentOutputTransRef' = outAll
               /\ turnIn' = [turnIn EXCEPT ![k] = @ \o m.inputTxt]
               /\ turnOut' = [turnOut EXCEPT ![k] = @ \o m.outputTxt]
               /\ UNCHANGED messages
     /\ decoding' = IF m.audio > 0 /\ outputContextRef # Null
                      THEN decoding \cup {[msg |-> n, session |-> k,
                                           ctx |-> outputContextRef, dur |-> m.audio]}
                      ELSE decoding
     /\ last' = [Last("onmessage", k, "") EXCEPT !.msg = m]
  /\ UNCHANGED <<apiKey, mounted, connectionState, inputContextRef, outputContextRef,
                 inputAnalyserRef, outputAnalyserRef, processorRef, sourceRef, streamRef,
                 sessionPromiseRef, nextStartTimeRef, scheduledSourcesRef, connectPc,
                 inCtx, outCtx, outTime, stream, processor, srcNode, session, mq,
                 connects, sentChunks, sched, endOf>>
  /\ Render

\* source.connect(outputAnalyserRef.current) and the analyser's connect to
\* ctx.destination (lines 244-249): an AudioNode connects only to nodes of its own
\* context, otherwise connect throws InvalidAccessError; without an analyser the
\* source connects to the destination of its own context.
ConnectsToOutput(ctx, analyser) == analyser = Null \/ analyser = ctx

\* decodeAudioData (utils/audio): the promise awaited at line 238 is settled in a
\* later task, and the decodes in flight settle in any order.
DecodeSettles(d) == d \in decoding

\* onmessage resumed with the decoded buffer d (lines 240-265): the buffer source is
\* created on the context captured before the await, connected through the output
\* analyser the ref holds now, and scheduled on the clock of its context.  When the
\* connect throws, the rest of onmessage does not run.
DecodeDone(d) ==
  /\ mq = <<>>
  /\ DecodeSettles(d)
  /\ LET now == outTime[d.ctx]
         start == StartTime(nextStartTimeRef, now)
     IN
     IF ConnectsToOutput(d.ctx, outputAnalyserRef)
       THEN /\ nextStartTimeRef' = start + d.dur
            /\ scheduledSourcesRef' = scheduledSourcesRef \cup
                   {[msg |-> d.msg, ctx |-> d.ctx, start |-> start, dur |-> d.dur]}
            /\ sched' = [msg |-> d.msg, session |-> d.session, start |-> start,
                         dur |-> d.dur, now |-> now, before |-> nextStartTimeRef,
                         prevEnd |-> endOf[d.session]]
            /\ endOf' = [endOf EXCEPT ![d.session] = start + d.dur]
       ELSE UNCHANGED <<nextStartTimeRef, scheduledSourcesRef, sched, endOf>>
  /\ decoding' = decoding \ {d}
  /\ last' = Other
  /\ UNCHANGED <<apiKey, mounted, connectionState, detectedLanguage, messages,
                 inputContextRef, outputContextRef, inputAnalyserRef, outputAnalyserRef,
                 processorRef, sourceRef, streamRef, sessionPromiseRef,
                 currentInputTransRef, currentOutputTransRef, connectPc, inCtx, outCtx,
                 outTime, stream, processor, srcNode, session, reactions, mq, connects,
                 delivered, sentChunks, toolLog, calls, turnIn, turnOut>>
  /\ Render

\* onended of a scheduled source (lines 263-265): it has played to its end on a
\* running context.
SourceEnded(src) ==
  /\ mq = <<>>
  /\ src \in scheduledSourcesRef
  /\ outCtx[src.ctx] = "running"
  /\ outTime[src.ctx] >= src.start + src.dur
  /\ scheduledSourcesRef' = scheduledSourcesRef \ {src}
  /\ last' = Other
  /\ UNCHANGED <<apiKey, mounted, connectionState, detectedLanguage, messages,
                 inputContextRef, outputContextRef, inputAnalyserRef, outputAnalyserRef,
                 processorRef, sourceRef, streamRef, sessionPromiseRef, nextStartTimeRef,
                 currentInputTransRef, currentOutputTransRef, platformVars, connects,
                 delivered, sentChunks, toolLog, calls, sched, endOf, turnIn, turnOut>>
  /\ Render

\* The audio clock: currentTime of every running output context advances.
Tick ==
  /\ mq = <<>>
  /\ \E k \in Gens : outCtx[k] = "running" /\ outTime[k] < MaxTime
  /\ outTime' = [k \in Gens |-> IF outCtx[k] = "running" /\ outTime[k] < MaxTime
                                  THEN outTime[k] + 1 ELSE outTime[k]]
  /\ last' = Other
  /\ UNCHANGED <<apiKey, mounted, connectionState, detectedLanguage, messages, refVars,
                 connectPc, inCtx, outCtx, stream, processor, srcNode, session, reactions,
                 mq, decoding, connects, delivered, sentChunks, toolLog, calls,
                 sched, endOf, turnIn, turnOut>>
  /\ Render

\* An animation frame of Visualizer v fires: draw (lines 22-50) requests the next
\* frame of its loop and draws the data of the analyser its effect captured.
Frame(v) ==
  /\ mq = <<>>
  /\ visualizers[v].frames # <<>>
  /\ visualizers' = [visualizers EXCEPT ![v].frames = Tail(@) \o <<Head(@)>>]
  /\ last' = Last("frame", Head(visualizers[v].frames).analyser, v)
  /\ UNCHANGED <<apiKey, mounted, connectionState, detectedLanguage, messages, refVars,
                 platformVars, connects, delivered, sentChunks, toolLog, calls,
                 sched, endOf, turnIn, turnOut>>

\* ------------------------------------------------------- specification

\* connect, disconnect, the session's life and the microphone.
Lifecycle ==
  \/ ToggleConnect
  \/ ToggleDisconnect
  \/ \E k \in Gens : ConnectMediaOk(k)
  \/ \E k \in Gens : ConnectMediaFail(k)
  \/ \E k \in Gens : SessionOpen(k)
  \/ \E k \in Gens : SessionReject(k)
  \/ \E k \in Gens : SessionError(k)
  \/ \E k \in Gens : SessionClose(k)
  \/ \E p \in Gens : AudioProcess(p)
  \/ RunMicrotask

\* The whole application with the messages of the playback scenarios.
Next ==
  \/ Lifecycle
  \/ Unmount
  \/ \E k \in Gens, m \in AudioMsgSet : OnMessage(k, m)
  \/ \E d \in decoding : DecodeDone(d)
  \/ \E src \in scheduledSourcesRef : SourceEnded(src)
  \/ Tick

Spec == Init /\ [][Next]_vars

\* The mounted application with the messages of the chat scenarios, within one tick
\* of the audio clock.
NextChat ==
  \/ Lifecycle
  \/ \E k \in Gens, m \in ChatMsgSet : OnMessage(k, m)
  \/ \E d \in decoding : DecodeDone(d)

SpecChat == Init /\ [][NextChat]_vars

\* The application without server messages, with the animation frames of the two
\* Visualizers.
NextVis ==
  \/ Lifecycle
  \/ Unmount
  \/ \E v \in Vis : Frame(v)

SpecVis == Init /\ [][NextVis]_vars

\* ---------------------------------------------------------------- claims

\* C1: every microphone chunk handed to a session is sent after that session's
\* onopen has run and while the session ref is held; none is sent once disconnect
\* has cleared the ref.
C1_ChunksOnlyWhileOpenAndHeld == \A c \in sentChunks : c.opened /\ c.held

\* C2: within one session buffers are scheduled back to back: a buffer starts no
\* earlier than the end (start plus duration) of the buffer scheduled before it for
\* the same session.
C2_BackToBack == sched.msg # 0 => sched.start >= sched.prevEnd

\* C3: no buffer is scheduled in the past: the start time handed to source.start is
\* never earlier than the clock read when scheduling, and when nextStartTimeRef had
\* fallen behind the clock the buffer starts at the clock plus the 0.05 s slack.
C3_NeverInThePast ==
  sched.msg # 0 =>
    /\ sched.start >= sched.now
    /\ sched.before < sched.now => sched.start = sched.now + PlaybackSlack
    /\ sched.before >= sched.now => sched.start = sched.before

\* A buffer was scheduled after nextStartTimeRef had fallen behind the clock.
C3_Witness == sched.msg # 0 /\ sched.before < sched.now

EvenUserModel(chat) ==
  /\ Len(chat) % 2 = 0
  /\ \A i \in 1..Len(chat) : chat[i].sender = IF i % 2 = 1 THEN "user" ELSE "model"

\* C4: on every message with turnComplete, when one of the trimmed accumulated
\* transcripts is non-empty exactly two messages are appended, 'user' then 'model',
\* otherwise none; both buffers are reset; the chat always has even length with
\* 'user' and 'model' alternating.
C4_TurnComplete ==
  [][ /\ (last'.op = "onmessage" /\ last'.msg.turnComplete) =>
          LET u == Trim(currentInputTransRef \o last'.msg.inputTxt)
              t == Trim(currentOutputTransRef \o last'.msg.outputTxt)
              n == Len(messages)
          IN /\ currentInputTransRef' = <<>> /\ currentOutputTransRef' = <<>>
             /\ IF u # <<>> \/ t # <<>>
                  THEN /\ Len(messages') = n + 2
                       /\ SubSeq(messages', 1, n) = messages
                       /\ messages'[n + 1].sender = "user"
                       /\ messages'[n + 2].sender = "model"
                  ELSE messages' = messages
      /\ EvenUserModel(messages') ]_vars

\* Two turns were appended, the second one by a turnComplete with an empty user text.
C4_Witness ==
  /\ Len(messages) = 4
  /\ last.op = "onmessage" /\ last.msg.turnComplete
  /\ messages[3].text = <<>> /\ messages[4].text # <<>>

\* The sessions other than k are closed or were never created, and no call of
\* connect is waiting for the microphone: k is the one current session.
OnlySession(k) ==
  \A j \in Gens \ {k} : session[j].ws \in {"none", "closed"} /\ connectPc[j] # "media"

\* C5: the texts of the two messages a turnComplete appends are the trimmed
\* concatenations of the input and output fragments the current session received
\* since its previous turnComplete or since it was opened; fragments of an earlier
\* session do not appear.  Stated for a session that is the only live one.
C5_TextsOfThisSession ==
  [][ (/\ last'.op = "onmessage" /\ last'.msg.turnComplete /\ messages' # messages
       /\ OnlySession(last'.k)) =>
         /\ messages'[Len(messages') - 1].text = Trim(turnIn[last'.k] \o last'.msg.inputTxt)
         /\ messages'[Len(messages')].text = Trim(turnOut[last'.k] \o last'.msg.outputTxt)
    ]_vars

ToolPending == \E e \in {mq[i] : i \in 1..Len(mq)} \cup
                        UNION {{reactions[k][i] : i \in 1..Len(reactions[k])} : k \in Gens} :
                  e.type = "tool"

Responses(c) == Len(SelectSeq(toolLog, LAMBDA r :
                      r.msg = c.msg /\ r.id = c.id /\ r.name = c.name /\ r.to = c.session))

\* C6: every report_language call sets the detected language to its argument and
\* gets exactly one tool response, with its id and name, sent to its session; a call
\* of another name gets none.
C6_ReportLanguageAnswered ==
  /\ (last.op = "onmessage" /\ ReportCalls(last.msg) # <<>>) =>
        detectedLanguage = ReportCalls(last.msg)[Len(ReportCalls(last.msg))].language
  /\ ~ToolPending =>
        /\ \A c \in calls : Responses(c) = IF c.name = "report_language" THEN 1 ELSE 0
        /\ Len(toolLog) = Cardinality({c \in calls : c.name = "report_language"})

\* C7: after onerror has run, cleanup included, the status is ERROR.
C7_ErrorStatusKept == last.op = "onerror" => connectionState = ERROR

\* C8: when a step of connect fails (creating an audio context, getting the
\* microphone, establishing the session) the status becomes ERROR.
C8_FailedConnectIsError ==
  last.op \in {"connectThrew", "connectFailed", "sessionRejected"} => connectionState = ERROR

Released ==
  /\ sessionPromiseRef = Null
  /\ streamRef = Null /\ processorRef = Null /\ sourceRef = Null
  /\ inputContextRef = Null /\ outputContextRef = Null
  /\ scheduledSourcesRef = {}
  /\ detectedLanguage = WaitingForSpeech

\* C9: when a call of disconnect has run to its end and connect was not called
\* meanwhile, every resource is released, the status is DISCONNECTED and the
\* detected language is 'Waiting for speech...'.
C9_DisconnectReleases ==
  (last.done /\ ~last.meanwhile) => Released /\ connectionState = DISCONNECTED

\* C10: a click calls connect only when the status is DISCONNECTED or ERROR, and
\* disconnect only when it is CONNECTING or CONNECTED.
C10_ToggleByStatus ==
  /\ last.op \in {"connect", "connectThrew", "connectNoKey"} => last.at \in {DISCONNECTED, ERROR}
  /\ last.op = "toggleDisconnect" => last.at \in {CONNECTING, CONNECTED}

\* connect was called by a click made while the status was ERROR.
C10_Witness == last.op = "connect" /\ last.at = ERROR

\* C11: the status becomes CONNECTED only from CONNECTING, never from DISCONNECTED
\* or ERROR: once disconnect has been called it is not CONNECTED again before
\* connect is called again.
C11_ConnectedOnlyFromConnecting ==
  [][ (connectionState' = CONNECTED /\ connectionState # CONNECTED) =>
         connectionState = CONNECTING ]_vars

\* C12: the analysers decide nothing: every decoded buffer is scheduled, at the
\* start time computed from nextStartTimeRef and the clock alone, whichever
\* analyser outputAnalyserRef holds, exactly as it is when there is no output
\* analyser.
C12_AnalysersDecideNothing ==
  [][ \A d \in decoding \ decoding' :
         /\ nextStartTimeRef' = StartTime(nextStartTimeRef, outTime[d.ctx]) + d.dur
         /\ \E s \in scheduledSourcesRef' : s.msg = d.msg ]_vars

\* C13: after disconnect has completed and until the next connect (the output
\* context ref is null in between) no audio source is scheduled: the set of
\* scheduled sources is empty, also when a message was being decoded while
\* disconnect ran.
C13_NothingScheduledAfterDisconnect ==
  outputContextRef = Null => scheduledSourcesRef = {}

\* Session k was created by connect and neither closed nor failed.
LiveSession(k) == session[k].ws \in {"connecting", "open"}

\* C14: at most one live session exists at any time, and whenever one exists
\* sessionPromiseRef refers to it, so that a disconnect can close it.
C14_OneLiveSessionHeld ==
  /\ Cardinality({k \in Gens : LiveSession(k)}) <= 1
  /\ \A k \in Gens : LiveSession(k) => sessionPromiseRef = k

\* A call of connect is waiting for the microphone, or a call of disconnect is
\* suspended at its await or about to resume.
CallInProgress ==
  \/ \E k \in Gens : connectPc[k] = "media"
  \/ \E i \in 1..Len(mq) : mq[i].type = "disc"
  \/ \E k \in Gens : \E i \in 1..Len(reactions[k]) : reactions[k][i].type = "disc"

\* C15: whenever the status is DISCONNECTED or ERROR and no call of connect or
\* disconnect is in progress, no capture or session resource is held: no microphone
\* stream is live and the stream, processor, source, audio context and session refs
\* are null; this includes the states after onclose and after a failed connect.
C15_IdleHoldsNothing ==
  (connectionState \in {DISCONNECTED, ERROR} /\ ~CallInProgress) =>
     /\ \A k \in Gens : stream[k] # "live"
     /\ streamRef = Null /\ processorRef = Null /\ sourceRef = Null
     /\ inputContextRef = Null /\ outputContextRef = Null
     /\ sessionPromiseRef = Null

\* C16: buffers are scheduled in the order in which their messages arrived: no
\* message still being decoded arrived before the message of the buffer scheduled
\* last.
C16_ScheduledInArrivalOrder == \A d \in decoding : d.msg > sched.msg

\* C17: connect called with an empty API key changes no state: the status is
\* unchanged, no audio context is created, the microphone is not requested and no
\* session is created.
C17_NoKeyChangesNothing ==
  [][ last'.op = "connectNoKey" =>
        /\ connectionState' = connectionState
        /\ inCtx' = inCtx /\ outCtx' = outCtx
        /\ connectPc' = connectPc /\ stream' = stream
        /\ session' = session /\ connects' = connects
        /\ UNCHANGED <<detectedLanguage, messages, refVars>> ]_vars

\* connect has been called with an empty API key.
C17_Witness == ~apiKey /\ last.op = "connectNoKey" /\ last.at = DISCONNECTED

\* C18: a Visualizer has a frame pending only while it is mounted, isActive is
\* true (the status is CONNECTED) and its analyser is non-null; it has at most one
\* frame pending, and that frame belongs to the loop of its current effect and
\* draws its current analyser: the frame of an old loop was cancelled.
C18_OneLoopWhileActive ==
  \A v \in Vis :
    LET z == visualizers[v] IN
    /\ Len(z.frames) <= 1
    /\ z.frames # <<>> =>
          /\ mounted /\ z.isActive /\ connectionState = CONNECTED
          /\ z.analyser # Null
          /\ z.frames[1].current /\ z.frames[1].analyser = z.analyser

\* A frame of the input Visualizer has drawn the analyser of the second connect
\* after the sessions of both connects had opened.
C18_Witness ==
  /\ last.op = "frame" /\ last.at = "input" /\ last.k = 2
  /\ visualizers["input"].frames # <<>>
  /\ session[1].opened /\ session[2].opened

====
